---- MODULE Spec2Model ----
(***************************************************************************)
(* A model of src/socks4.rs: the SOCKS4 request decoder                    *)
(* (Sock4Request::deserialize), the connection handler                     *)
(* (handle_sock4_client) and the two relay threads it spawns, together     *)
(* with the client and the destination they talk to over TCP.              *)
(***************************************************************************)
EXTENDS Integers, Sequences, FiniteSets, TLC

\* ------------------------------------------------------------------ bounds

\* Longest user-id (without its NUL) a client of the model appends to a request.
MaxUserId == 1
\* Number of payload bytes the client sends after its request.
MaxPayload == 3
\* Number of bytes a destination that talks on its own may send.
MaxDst == 2
\* Longest input stream of the decoder-only specification.
MaxLen == 9
\* By how many bytes the longest stream of the decoder-only specification
\* exceeds what deserialize can consume.
MaxOver == 1
\* Most bytes the writer handed to serialize has room for.
MaxRoom == 9

\* --------------------------------------------------------------- constants

\* let mut userid = [0u8; 255];
UserIdCap == 255
\* version_number: 0x04
SocksVersion == 4
\* RequestGranted = 0x5A
RequestGranted == 90
\* RequestFailed = 0x5B
RequestFailed == 91

Min(a, b) == IF a < b THEN a ELSE b

\* ------------------------------------------------------------------- state

VARIABLES
    \* the client: the bytes it is going to send (request, then payload), how
    \* many of them it has sent, whether it has closed its write side, whether
    \* it has reset the connection
    script, sent, cliFin, cliReset,
    \* bytes of the client's stream consumed by the proxy (decoder, then upload)
    rd,
    \* the handling flow: position, the decoder's local buffers, the decoded
    \* request, the stream offset at which deserialize returned, the result
    hpc, fixed, req, decEnd, hres,
    \* number of reply bytes write_all has written so far
    roff,
    \* everything written to the client's socket: <<byte, writer>>
    cliRecv,
    \* the destination: what it does ("refuse" the connection, "echo" its
    \* input, "talk" on its own), whether the proxy is connected to it, the
    \* bytes written to it, the bytes it has sent, whether it closed its write
    \* side, whether the connection to it was reset
    dstKind, dstConn, dstRecv, dstSent, dstFin, dstReset,
    \* upload thread: position, copy buffer, why the copy ended
    upc, ubuf, uend,
    \* download thread: position, copy buffer, why the copy ended, bytes of
    \* dstSent consumed
    dpc, dbuf, dend, drd,
    \* half-shutdown state of the two sockets
    cliRdShut, cliWrShut, dstRdShut, dstWrShut,
    \* Sock4Reply::serialize: position, the reply it was given, the bytes its
    \* writer has taken, its result
    spc, sreply, sout, sres,
    \* the writer given to serialize: the bytes it still has room for, what a
    \* write does when there is no room ("zero": Ok(0), "err": an error), and
    \* the byte order of the machine the proxy was built for
    wroom, wfull, endian

vars == <<script, sent, cliFin, cliReset, rd, hpc, fixed, req, decEnd, hres,
          roff, cliRecv, dstKind, dstConn, dstRecv, dstSent, dstFin, dstReset,
          upc, ubuf, uend, dpc, dbuf, dend, drd,
          cliRdShut, cliWrShut, dstRdShut, dstWrShut,
          spc, sreply, sout, sres, wroom, wfull, endian>>

clientVars == <<script, sent, cliFin, cliReset>>
decoderVars == <<fixed, req, decEnd>>
dstVars == <<dstKind, dstConn, dstSent, dstFin, dstReset>>
upVars == <<upc, ubuf, uend>>
downVars == <<dpc, dbuf, dend, drd>>
shutVars == <<cliRdShut, cliWrShut, dstRdShut, dstWrShut>>
serVars == <<spc, sreply, sout, sres, wroom, wfull, endian>>

\* ------------------------------------------------------------ the streams

\* The spec's scenario request: connect, port 80, 127.0.0.1, no user-id bytes.
Req8 == <<4, 1, 0, 80, 127, 0, 0, 1>>
\* A bind request with another wire version, port 443, 10.0.0.2.
ReqBind == <<5, 2, 1, 187, 10, 0, 0, 2>>
\* "ping"
Ping == <<112, 105, 110, 103>>

\* User-ids of the model: "", "u", "uu", ...
UserIds == {[i \in 1..n |-> 117] : n \in 0..MaxUserId}

\* What a client may send as its request: the eight fixed bytes alone, or
\* followed by a NUL-terminated user-id.
Requests == {Req8, ReqBind \o <<0>>} \cup {Req8 \o u \o <<0>> : u \in UserIds}

Payload == [i \in 1..MaxPayload |-> Ping[((i - 1) % Len(Ping)) + 1]]

Scripts == {r \o Payload : r \in Requests}

\* The bytes a destination in mode "talk" sends on its own.
DstScript == [i \in 1..MaxDst |-> 200 + i]

Zeros(n) == [i \in 1..n |-> 0]

\* let mut version = [0u8; 1]; ... let mut dst_ip = [0u8; 4];
ZeroBufs == [version |-> Zeros(1), command |-> Zeros(1),
             dst_port |-> Zeros(2), dst_ip |-> Zeros(4)]

NoReq == [version_number |-> 0, command |-> 0, dst_port |-> 0,
          dst_ip |-> <<>>, userid |-> "NoRequest"]

\* Bytes of the client's stream that have arrived and are not yet consumed.
Avail == sent - rd

\* A read() that takes whatever is buffered, its buffer's size forgotten.
ReadAllSizes(avail, cap) == IF avail = 0 THEN {0} ELSE 1..avail

\* What one read() with a buffer of cap bytes may return when avail bytes are
\* buffered: 0 only at end of stream, else between 1 and min(cap, avail).
ReadSizes(avail, cap) == IF avail = 0 THEN {0} ELSE 1..Min(cap, avail)

\* A plain read() where read_exact() is meant: a short read is a success and
\* the rest of the buffer keeps its zeros.
ReadLoose(n) ==
    IF cliReset THEN [ok |-> FALSE, took |-> 0, bytes |-> <<>>]
    ELSE LET k == Min(n, Avail)
         IN [ok |-> TRUE, took |-> k,
             bytes |-> SubSeq(script, rd + 1, rd + k) \o Zeros(n - k)]

\* stream.read_exact(buf) with Len(buf) = n, once it returns: the n next bytes,
\* or an error after consuming what was there (the stream ended or failed).
ReadExact(n) ==
    IF cliReset THEN [ok |-> FALSE, took |-> 0, bytes |-> <<>>]
    ELSE IF Avail >= n
         THEN [ok |-> TRUE, took |-> n, bytes |-> SubSeq(script, rd + 1, rd + n)]
         ELSE [ok |-> FALSE, took |-> Avail, bytes |-> <<>>]

\* read_exact blocks until it has its n bytes or the stream ends or fails.
ReadExactReturns(n) == cliReset \/ cliFin \/ Avail >= n

\* u16::from_le_bytes
FromLeBytes(b) == b[1] + 256 * b[2]

\* u16::from_be_bytes
FromBeBytes(b) == 256 * b[1] + b[2]

\* u16::to_be_bytes
ToBeBytes(p) == <<p \div 256, p % 256>>

\* Ok(Sock4Request { version_number: 0x04, command: command[0], ... })
MakeRequest(f) ==
    [version_number |-> SocksVersion,
     command |-> f.command[1],
     dst_port |-> FromBeBytes(f.dst_port),
     dst_ip |-> f.dst_ip,
     userid |-> "None"]

\* ------------------------------------------------- Sock4Request::deserialize

\* The `?` after a failed read: deserialize returns the error, its buffers
\* are dropped and no request exists.
DeserializeErr(took) ==
    /\ rd' = rd + took
    /\ fixed' = ZeroBufs
    /\ hpc' = "done"
    /\ hres' = "ErrDecode"
    /\ UNCHANGED <<req, decEnd>>

ReadField(here, field, n, next) ==
    /\ hpc = here
    /\ ReadExactReturns(n)
    /\ LET r == ReadExact(n)
       IN IF r.ok
          THEN /\ rd' = rd + r.took
               /\ fixed' = [fixed EXCEPT ![field] = r.bytes]
               /\ hpc' = next
               /\ UNCHANGED <<req, decEnd, hres>>
          ELSE DeserializeErr(r.took)
    /\ UNCHANGED <<clientVars, roff, cliRecv, dstVars, dstRecv, upVars, downVars, shutVars>>
    /\ UNCHANGED serVars

\* stream.read_exact(version.as_mut())?;
ReadVersion == ReadField("read_version", "version", 1, "read_command")

\* stream.read_exact(command.as_mut())?;
ReadCommand == ReadField("read_command", "command", 1, "read_dst_port")

\* stream.read_exact(dst_port.as_mut())?;
ReadDstPort == ReadField("read_dst_port", "dst_port", 2, "read_dst_ip")

\* stream.read_exact(dst_ip.as_mut())?;
ReadDstIp == ReadField("read_dst_ip", "dst_ip", 4, "read_userid")

\* stream.read(userid.as_mut())?; Ok(Sock4Request { .. })
\* One read of at most 255 bytes, whose bytes are dropped; then the request
\* is built from the fixed fields.
ReadUserId ==
    /\ hpc = "read_userid"
    /\ cliReset \/ cliFin \/ Avail > 0
    /\ IF cliReset
       THEN DeserializeErr(0)
       ELSE \E n \in ReadSizes(Avail, UserIdCap) :
               /\ rd' = rd + n
               /\ decEnd' = rd + n
               /\ req' = MakeRequest(fixed)
               /\ fixed' = ZeroBufs
               /\ hpc' = "connect"
               /\ UNCHANGED hres
    /\ UNCHANGED <<clientVars, roff, cliRecv, dstVars, dstRecv, upVars, downVars, shutVars>>
    /\ UNCHANGED serVars

Deserialize == ReadVersion \/ ReadCommand \/ ReadDstPort \/ ReadDstIp \/ ReadUserId

\* ------------------------------------------------------------ initial state

\* Everything but the client: nothing decoded, nothing dialled, no thread.
ProxyInit ==
    /\ rd = 0
    /\ hpc = "read_version"
    /\ fixed = ZeroBufs
    /\ req = NoReq
    /\ decEnd = 0
    /\ hres = "none"
    /\ roff = 0
    /\ cliRecv = <<>>
    /\ dstConn = FALSE
    /\ dstRecv = <<>>
    /\ dstSent = <<>>
    /\ dstFin = FALSE
    /\ dstReset = FALSE
    /\ upc = "none" /\ ubuf = <<>> /\ uend = "none"
    /\ dpc = "none" /\ dbuf = <<>> /\ dend = "none" /\ drd = 0
    /\ cliRdShut = FALSE /\ cliWrShut = FALSE
    /\ dstRdShut = FALSE /\ dstWrShut = FALSE

\* No reply is being serialized.
SerIdle ==
    /\ spc = "idle"
    /\ sreply = [version_number |-> 0, reply_code |-> RequestGranted,
                 dst_port |-> 0, dst_ip |-> 0]
    /\ sout = <<>>
    /\ sres = "none"
    /\ wroom = 0
    /\ wfull = "zero"
    /\ endian = "little"

\* A freshly accepted connection: the client has sent nothing yet.
Init ==
    /\ script \in Scripts
    /\ dstKind \in {"refuse", "echo", "talk"}
    /\ sent = 0
    /\ cliFin = FALSE
    /\ cliReset = FALSE
    /\ ProxyInit
    /\ SerIdle

\* ------------------------------------------------------ handle_sock4_client

\* A granted reply that echoes the request's port and address, as the wire
\* format of Sock4Reply has room for.
EchoingReply == <<0, RequestGranted>> \o ToBeBytes(req.dst_port) \o req.dst_ip

\* stream.write_all(&[0x00, 0x5A, 0x00, 0x00, 0x00, 0x00, 0x00, 0x00])
GrantedReply == <<0, RequestGranted, 0, 0, 0, 0, 0, 0>>

ReplyLen == Len(GrantedReply)

\* Bytes bs as written to the client's socket by writer w.
By(w, bs) == [i \in 1..Len(bs) |-> <<bs[i], w>>]

\* A write on the client's socket fails once the connection is reset or its
\* write half has been shut down.
CliWriteFails == cliReset \/ cliWrShut

\* A write on the destination's socket fails once the connection is reset or
\* its write half has been shut down.
DstWriteFails == dstReset \/ dstWrShut

\* The handler returns an error after the dial: `target` and the clones made
\* so far are dropped, which closes the connection to the destination.
HandlerErrAfterDial(e) ==
    /\ hpc' = "done"
    /\ hres' = e
    /\ dstRdShut' = TRUE
    /\ dstWrShut' = TRUE
    /\ UNCHANGED <<cliRdShut, cliWrShut>>

\* A handler that services connect requests only: any other command code is
\* turned away without a dial.
ConnectOnlyConnect ==
    /\ hpc = "connect"
    /\ dstKind # "refuse"
    /\ IF req.command = 1
       THEN /\ dstConn' = TRUE
            /\ hpc' = "reply"
            /\ UNCHANGED hres
       ELSE /\ hpc' = "done"
            /\ hres' = "ErrDial"
            /\ UNCHANGED dstConn
    /\ UNCHANGED <<clientVars, rd, decoderVars, roff, cliRecv, dstRecv,
                   dstKind, dstSent, dstFin, dstReset, upVars, downVars, shutVars>>
    /\ UNCHANGED serVars

\* TcpStream::connect((req.dst_ip, req.dst_port)) succeeds: the destination
\* accepted the connection.
ConnectOk ==
    /\ hpc = "connect"
    /\ dstKind # "refuse"
    /\ dstConn' = TRUE
    /\ hpc' = "reply"
    /\ UNCHANGED <<clientVars, rd, decoderVars, hres, roff, cliRecv, dstRecv,
                   dstKind, dstSent, dstFin, dstReset, upVars, downVars, shutVars>>
    /\ UNCHANGED serVars

\* A handler that answers a failed dial with a "failed" reply before it
\* returns the error.
ConnectErrReplying ==
    /\ hpc = "connect"
    /\ dstKind = "refuse"
    /\ hpc' = "done"
    /\ hres' = "ErrDial"
    /\ cliRecv' = cliRecv \o [i \in 1..8 |-> <<IF i = 2 THEN RequestFailed ELSE 0, "handler">>]
    /\ UNCHANGED <<clientVars, rd, decoderVars, roff, dstVars, dstRecv,
                   upVars, downVars, shutVars>>
    /\ UNCHANGED serVars

\* TcpStream::connect(..)? fails: the error is returned at once.
ConnectErr ==
    /\ hpc = "connect"
    /\ dstKind = "refuse"
    /\ hpc' = "done"
    /\ hres' = "ErrDial"
    /\ UNCHANGED <<clientVars, rd, decoderVars, roff, cliRecv, dstVars, dstRecv,
                   upVars, downVars, shutVars>>
    /\ UNCHANGED serVars

\* The reply sent with one write() instead of write_all(): the handler goes
\* on whatever part of the reply that write took.
WriteReplyOnce ==
    /\ hpc = "reply"
    /\ IF CliWriteFails
       THEN /\ HandlerErrAfterDial("ErrReply")
            /\ UNCHANGED <<roff, cliRecv>>
       ELSE /\ \E n \in 1..(Len(GrantedReply) - roff) :
                 /\ cliRecv' = cliRecv \o By("handler", SubSeq(GrantedReply, roff + 1, roff + n))
                 /\ roff' = roff + n
                 /\ hpc' = "clone_outbound_in"
            /\ UNCHANGED <<hres, shutVars>>
    /\ UNCHANGED <<clientVars, rd, decoderVars, dstVars, dstRecv, upVars, downVars>>
    /\ UNCHANGED serVars

\* stream.write_all(GrantedReply)?: one write() of the loop, which takes
\* between one and all of the bytes left, or fails.
WriteReply ==
    /\ hpc = "reply"
    /\ IF CliWriteFails
       THEN /\ HandlerErrAfterDial("ErrReply")
            /\ UNCHANGED <<roff, cliRecv>>
       ELSE /\ \E n \in 1..(ReplyLen - roff) :
                 /\ cliRecv' = cliRecv \o By("handler", SubSeq(GrantedReply, roff + 1, roff + n))
                 /\ roff' = roff + n
                 /\ hpc' = IF roff + n = ReplyLen THEN "clone_outbound_in" ELSE "reply"
            /\ UNCHANGED <<hres, shutVars>>
    /\ UNCHANGED <<clientVars, rd, decoderVars, dstVars, dstRecv, upVars, downVars>>
    /\ UNCHANGED serVars

\* One `try_clone()?`: a new handle to the same socket, or an error (no
\* descriptor left) that makes the handler return.
TryClone(here, next) ==
    /\ hpc = here
    /\ \/ /\ hpc' = next
          /\ UNCHANGED <<hres, shutVars>>
       \/ HandlerErrAfterDial("ErrClone")
    /\ UNCHANGED <<clientVars, rd, decoderVars, roff, cliRecv, dstVars, dstRecv,
                   upVars, downVars>>
    /\ UNCHANGED serVars

\* let mut outbound_in = target.try_clone()?;
CloneOutboundIn == TryClone("clone_outbound_in", "clone_outbound_out")

\* let mut outbound_out = target.try_clone()?;
CloneOutboundOut == TryClone("clone_outbound_out", "clone_inbound_in")

\* A handler that starts the upload thread as soon as its two handles exist,
\* before the last try_clone.
CloneInboundInAndSpawn ==
    /\ hpc = "clone_inbound_in"
    /\ \/ /\ hpc' = "clone_inbound_out"
          /\ upc' = "copy_read"
          /\ UNCHANGED <<hres, shutVars>>
       \/ /\ HandlerErrAfterDial("ErrClone")
          /\ UNCHANGED upc
    /\ UNCHANGED <<clientVars, rd, decoderVars, roff, cliRecv, dstVars, dstRecv,
                   ubuf, uend, downVars>>
    /\ UNCHANGED serVars

\* let mut inbound_in = stream.try_clone()?;
CloneInboundIn == TryClone("clone_inbound_in", "clone_inbound_out")

\* let mut inbound_out = stream.try_clone()?;
CloneInboundOut == TryClone("clone_inbound_out", "spawn_upload")

\* thread::spawn(move || { io::copy(&mut inbound_in, &mut outbound_out) ... })
SpawnUpload ==
    /\ hpc = "spawn_upload"
    /\ hpc' = "spawn_download"
    /\ upc' = "copy_read"
    /\ UNCHANGED <<clientVars, rd, decoderVars, hres, roff, cliRecv, dstVars,
                   dstRecv, ubuf, uend, downVars, shutVars>>
    /\ UNCHANGED serVars

\* A handler that keeps the threads' handles and joins them before it
\* returns.
SpawnDownloadAndJoin ==
    /\ hpc = "spawn_download"
    /\ hpc' = "join"
    /\ dpc' = "copy_read"
    /\ UNCHANGED <<clientVars, rd, decoderVars, hres, roff, cliRecv, dstVars, dstRecv,
                   upVars, dbuf, dend, drd, shutVars>>
    /\ UNCHANGED serVars

\* thread::spawn(move || { io::copy(&mut outbound_in, &mut inbound_out) ... });
\* Ok(())
SpawnDownload ==
    /\ hpc = "spawn_download"
    /\ hpc' = "done"
    /\ hres' = "Ok"
    /\ dpc' = "copy_read"
    /\ UNCHANGED <<clientVars, rd, decoderVars, roff, cliRecv, dstVars, dstRecv,
                   upVars, dbuf, dend, drd, shutVars>>
    /\ UNCHANGED serVars

Handle ==
    \/ ConnectOk \/ ConnectErr \/ WriteReply
    \/ CloneOutboundIn \/ CloneOutboundOut \/ CloneInboundIn \/ CloneInboundOut
    \/ SpawnUpload \/ SpawnDownload

\* ------------------------------------------------------------ upload thread

\* A read with a deadline: when nothing arrives the read gives up with an
\* error, which ends the copy.
UploadReadTimeout ==
    /\ upc = "copy_read"
    /\ IF cliReset \/ (Avail = 0 /\ ~cliFin /\ ~cliRdShut)
       THEN /\ uend' = "read_err" /\ upc' = "shut_read"
            /\ UNCHANGED <<rd, ubuf>>
       ELSE IF cliRdShut \/ Avail = 0
       THEN /\ uend' = "eof" /\ upc' = "shut_read"
            /\ UNCHANGED <<rd, ubuf>>
       ELSE \E n \in 1..Avail :
               /\ ubuf' = SubSeq(script, rd + 1, rd + n)
               /\ rd' = rd + n
               /\ upc' = "copy_write"
               /\ UNCHANGED uend
    /\ UNCHANGED <<clientVars, hpc, decoderVars, hres, roff, cliRecv, dstVars,
                   dstRecv, downVars, shutVars>>
    /\ UNCHANGED serVars

\* io::copy(&mut inbound_in, &mut outbound_out), its read: bytes of the
\* client's stream into the copy buffer, or the end of the copy on end of
\* stream or on a read error.
UploadRead ==
    /\ upc = "copy_read"
    /\ cliReset \/ cliRdShut \/ cliFin \/ Avail > 0
    /\ IF cliReset
       THEN /\ uend' = "read_err" /\ upc' = "shut_read"
            /\ UNCHANGED <<rd, ubuf>>
       ELSE IF cliRdShut \/ Avail = 0
       THEN /\ uend' = "eof" /\ upc' = "shut_read"
            /\ UNCHANGED <<rd, ubuf>>
       ELSE \E n \in 1..Avail :
               /\ ubuf' = SubSeq(script, rd + 1, rd + n)
               /\ rd' = rd + n
               /\ upc' = "copy_write"
               /\ UNCHANGED uend
    /\ UNCHANGED <<clientVars, hpc, decoderVars, hres, roff, cliRecv, dstVars,
                   dstRecv, downVars, shutVars>>
    /\ UNCHANGED serVars

\* A write loop that starts again from the beginning of the buffer after a
\* partial write.
UploadWriteAgain ==
    /\ upc = "copy_write"
    /\ IF DstWriteFails
       THEN /\ uend' = "write_err" /\ upc' = "shut_read"
            /\ ubuf' = <<>>
            /\ UNCHANGED dstRecv
       ELSE \E n \in 1..Len(ubuf) :
               /\ dstRecv' = dstRecv \o SubSeq(ubuf, 1, n)
               /\ ubuf' = IF n = Len(ubuf) THEN <<>> ELSE ubuf
               /\ upc' = IF n = Len(ubuf) THEN "copy_read" ELSE "copy_write"
               /\ UNCHANGED uend
    /\ UNCHANGED <<clientVars, rd, hpc, decoderVars, hres, roff, cliRecv, dstVars,
                   downVars, shutVars>>
    /\ UNCHANGED serVars

\* io::copy, its write_all: one write() of the loop sends between one and all
\* of the buffered bytes to the destination, or fails and ends the copy.
UploadWrite ==
    /\ upc = "copy_write"
    /\ IF DstWriteFails
       THEN /\ uend' = "write_err" /\ upc' = "shut_read"
            /\ ubuf' = <<>>
            /\ UNCHANGED dstRecv
       ELSE \E n \in 1..Len(ubuf) :
               /\ dstRecv' = dstRecv \o SubSeq(ubuf, 1, n)
               /\ ubuf' = SubSeq(ubuf, n + 1, Len(ubuf))
               /\ upc' = IF n = Len(ubuf) THEN "copy_read" ELSE "copy_write"
               /\ UNCHANGED uend
    /\ UNCHANGED <<clientVars, rd, hpc, decoderVars, hres, roff, cliRecv, dstVars,
                   downVars, shutVars>>
    /\ UNCHANGED serVars

\* .unwrap() where .unwrap_or(()) is meant: a failed shutdown panics the
\* thread, which never gets to its second shutdown.
UploadShutReadUnwrap ==
    /\ upc = "shut_read"
    /\ upc' = IF cliReset THEN "panicked" ELSE "shut_write"
    /\ cliRdShut' = (cliRdShut \/ ~cliReset)
    /\ UNCHANGED <<clientVars, rd, hpc, decoderVars, hres, roff, cliRecv, dstVars,
                   dstRecv, ubuf, uend, downVars, cliWrShut, dstRdShut, dstWrShut>>
    /\ UNCHANGED serVars

\* Shutdown::Both where Shutdown::Read is meant: the client's write half,
\* which the download thread feeds, goes down with the read half.
UploadShutBoth ==
    /\ upc = "shut_read"
    /\ upc' = "shut_write"
    /\ cliRdShut' = (cliRdShut \/ ~cliReset)
    /\ cliWrShut' = (cliWrShut \/ ~cliReset)
    /\ UNCHANGED <<clientVars, rd, hpc, decoderVars, hres, roff, cliRecv, dstVars,
                   dstRecv, ubuf, uend, downVars, dstRdShut, dstWrShut>>
    /\ UNCHANGED serVars

\* inbound_in.shutdown(Shutdown::Read).unwrap_or(());
\* fails, and is ignored, on a connection that was reset.
UploadShutRead ==
    /\ upc = "shut_read"
    /\ upc' = "shut_write"
    /\ cliRdShut' = (cliRdShut \/ ~cliReset)
    /\ UNCHANGED <<clientVars, rd, hpc, decoderVars, hres, roff, cliRecv, dstVars,
                   dstRecv, ubuf, uend, downVars, cliWrShut, dstRdShut, dstWrShut>>
    /\ UNCHANGED serVars

\* Shutdown::Read where Shutdown::Write is meant: the destination never
\* sees the end of the client's stream.
UploadShutWrongHalf ==
    /\ upc = "shut_write"
    /\ upc' = "done"
    /\ dstRdShut' = (dstRdShut \/ ~dstReset)
    /\ UNCHANGED <<clientVars, rd, hpc, decoderVars, hres, roff, cliRecv, dstVars,
                   dstRecv, ubuf, uend, downVars, cliRdShut, cliWrShut, dstWrShut>>
    /\ UNCHANGED serVars

\* outbound_out.shutdown(Shutdown::Write).unwrap_or(()); the thread ends.
UploadShutWrite ==
    /\ upc = "shut_write"
    /\ upc' = "done"
    /\ dstWrShut' = (dstWrShut \/ ~dstReset)
    /\ UNCHANGED <<clientVars, rd, hpc, decoderVars, hres, roff, cliRecv, dstVars,
                   dstRecv, ubuf, uend, downVars, cliRdShut, cliWrShut, dstRdShut>>
    /\ UNCHANGED serVars

Upload == UploadRead \/ UploadWrite \/ UploadShutRead \/ UploadShutWrite

\* ---------------------------------------------------------- download thread

\* Bytes the destination has sent that the download thread has not read.
DstAvail == Len(dstSent) - drd

\* io::copy(&mut outbound_in, &mut inbound_out), its read.
DownloadRead ==
    /\ dpc = "copy_read"
    /\ dstReset \/ dstRdShut \/ dstFin \/ DstAvail > 0
    /\ IF dstReset
       THEN /\ dend' = "read_err" /\ dpc' = "shut_read"
            /\ UNCHANGED <<drd, dbuf>>
       ELSE IF dstRdShut \/ DstAvail = 0
       THEN /\ dend' = "eof" /\ dpc' = "shut_read"
            /\ UNCHANGED <<drd, dbuf>>
       ELSE \E n \in 1..DstAvail :
               /\ dbuf' = SubSeq(dstSent, drd + 1, drd + n)
               /\ drd' = drd + n
               /\ dpc' = "copy_write"
               /\ UNCHANGED dend
    /\ UNCHANGED <<clientVars, rd, hpc, decoderVars, hres, roff, cliRecv, dstVars,
                   dstRecv, upVars, shutVars>>
    /\ UNCHANGED serVars

\* io::copy, its write_all: one write() of the loop towards the client.
DownloadWrite ==
    /\ dpc = "copy_write"
    /\ IF CliWriteFails
       THEN /\ dend' = "write_err" /\ dpc' = "shut_read"
            /\ dbuf' = <<>>
            /\ UNCHANGED cliRecv
       ELSE \E n \in 1..Len(dbuf) :
               /\ cliRecv' = cliRecv \o By("download", SubSeq(dbuf, 1, n))
               /\ dbuf' = SubSeq(dbuf, n + 1, Len(dbuf))
               /\ dpc' = IF n = Len(dbuf) THEN "copy_read" ELSE "copy_write"
               /\ UNCHANGED dend
    /\ UNCHANGED <<clientVars, rd, hpc, decoderVars, hres, roff, dstVars, dstRecv,
                   upVars, drd, shutVars>>
    /\ UNCHANGED serVars

\* outbound_in.shutdown(Shutdown::Read).unwrap_or(());
DownloadShutRead ==
    /\ dpc = "shut_read"
    /\ dpc' = "shut_write"
    /\ dstRdShut' = (dstRdShut \/ ~dstReset)
    /\ UNCHANGED <<clientVars, rd, hpc, decoderVars, hres, roff, cliRecv, dstVars,
                   dstRecv, upVars, dbuf, dend, drd, cliRdShut, cliWrShut, dstWrShut>>
    /\ UNCHANGED serVars

\* outbound_in where inbound_out is meant: the download thread shuts down
\* the write half of the destination's socket, which the upload thread feeds.
DownloadShutWrongSocket ==
    /\ dpc = "shut_write"
    /\ dpc' = "done"
    /\ dstWrShut' = (dstWrShut \/ ~dstReset)
    /\ UNCHANGED <<clientVars, rd, hpc, decoderVars, hres, roff, cliRecv, dstVars,
                   dstRecv, upVars, dbuf, dend, drd, cliRdShut, dstRdShut, cliWrShut>>
    /\ UNCHANGED serVars

\* inbound_out.shutdown(Shutdown::Write).unwrap_or(()); the thread ends.
DownloadShutWrite ==
    /\ dpc = "shut_write"
    /\ dpc' = "done"
    /\ cliWrShut' = (cliWrShut \/ ~cliReset)
    /\ UNCHANGED <<clientVars, rd, hpc, decoderVars, hres, roff, cliRecv, dstVars,
                   dstRecv, upVars, dbuf, dend, drd, cliRdShut, dstRdShut, dstWrShut>>
    /\ UNCHANGED serVars

Download == DownloadRead \/ DownloadWrite \/ DownloadShutRead \/ DownloadShutWrite

\* ------------------------------------------------- the two ends of the proxy

proxyVars == <<rd, hpc, decoderVars, hres, roff, cliRecv, dstRecv, upVars,
               downVars, shutVars>>

\* The client sends the next byte of its script.
ClientSend ==
    /\ ~cliFin /\ ~cliReset
    /\ sent < Len(script)
    /\ sent' = sent + 1
    /\ UNCHANGED <<script, cliFin, cliReset, proxyVars, dstVars>>
    /\ UNCHANGED serVars

\* The client closes its write side: the proxy's reads reach end of stream.
ClientClose ==
    /\ ~cliFin /\ ~cliReset
    /\ cliFin' = TRUE
    /\ UNCHANGED <<script, sent, cliReset, proxyVars, dstVars>>
    /\ UNCHANGED serVars

\* The client's connection is reset: the proxy's reads and writes on it fail.
ClientReset ==
    /\ ~cliReset
    /\ cliReset' = TRUE
    /\ UNCHANGED <<script, sent, cliFin, proxyVars, dstVars>>
    /\ UNCHANGED serVars

\* The destination sends a byte: the next byte it received and has not yet
\* echoed, or the next byte of its own script.
DstSend ==
    /\ dstConn /\ ~dstFin /\ ~dstReset
    /\ IF dstKind = "echo"
       THEN /\ Len(dstSent) < Len(dstRecv)
            /\ dstSent' = Append(dstSent, dstRecv[Len(dstSent) + 1])
       ELSE /\ Len(dstSent) < Len(DstScript)
            /\ dstSent' = Append(dstSent, DstScript[Len(dstSent) + 1])
    /\ UNCHANGED <<clientVars, proxyVars, dstKind, dstConn, dstFin, dstReset>>
    /\ UNCHANGED serVars

\* The destination closes its write side.
DstClose ==
    /\ dstConn /\ ~dstFin /\ ~dstReset
    /\ dstFin' = TRUE
    /\ UNCHANGED <<clientVars, proxyVars, dstKind, dstConn, dstSent, dstReset>>
    /\ UNCHANGED serVars

\* The connection to the destination is reset.
DstReset ==
    /\ dstConn /\ ~dstReset
    /\ dstReset' = TRUE
    /\ UNCHANGED <<clientVars, proxyVars, dstKind, dstConn, dstSent, dstFin>>
    /\ UNCHANGED serVars

Peers == ClientSend \/ ClientClose \/ ClientReset \/ DstSend \/ DstClose \/ DstReset

\* ---------------------------------------------------------- specifications

Next == Deserialize \/ Handle \/ Upload \/ Download \/ Peers

Spec == Init /\ [][Next]_vars

\* The spec's scenario: the eight request bytes without user-id, then "ping",
\* against a destination that accepts and echoes; nobody closes or resets a
\* connection. The threads of the proxy and the echoing destination keep
\* running.
PingInit ==
    /\ script = Req8 \o Ping
    /\ dstKind = "echo"
    /\ sent = 0
    /\ cliFin = FALSE
    /\ cliReset = FALSE
    /\ ProxyInit
    /\ SerIdle

PingNext ==
    \/ Deserialize
    \/ ConnectOk \/ WriteReply
    \/ CloneOutboundIn \/ CloneOutboundOut \/ CloneInboundIn \/ CloneInboundOut
    \/ SpawnUpload \/ SpawnDownload
    \/ UploadRead \/ UploadWrite
    \/ DownloadRead \/ DownloadWrite
    \/ ClientSend \/ DstSend

PingSpec ==
    /\ PingInit /\ [][PingNext]_vars
    /\ WF_vars(Deserialize \/ Handle)
    /\ WF_vars(Upload)
    /\ WF_vars(Download)
    /\ WF_vars(DstSend)

\* One well-formed request and any destination, with the upload thread
\* scheduled fairly.
LiveInit ==
    /\ script = Req8 \o <<0>> \o Payload
    /\ dstKind \in {"refuse", "echo", "talk"}
    /\ sent = 0
    /\ cliFin = FALSE
    /\ cliReset = FALSE
    /\ ProxyInit
    /\ SerIdle

LiveSpec == LiveInit /\ [][Next]_vars /\ WF_vars(Upload)

\* One well-formed request and any destination, with both relay threads
\* scheduled fairly.
RelaySpec == LiveInit /\ [][Next]_vars /\ WF_vars(Upload) /\ WF_vars(Download)

\* ------------------------------------------------------------------ claims

IsPrefix(a, b) == Len(a) <= Len(b) /\ SubSeq(b, 1, Len(a)) = a

\* The bytes of a sequence of <<byte, writer>> pairs.
Bytes(ws) == [i \in 1..Len(ws) |-> ws[i][1]]

IsHandlerByte(w) == w[2] = "handler"
IsRelayByte(w) == w[2] = "download"

\* What the handler itself has written to the client.
HandlerWritten == Bytes(SelectSeq(cliRecv, IsHandlerByte))

\* What the download thread has written to the client.
Relayed == Bytes(SelectSeq(cliRecv, IsRelayByte))

\* What has arrived at the upload thread's source: the client's bytes past
\* the point where deserialize returned.
UploadSource == SubSeq(script, decEnd + 1, sent)

\* The wire bytes of the granted reply.
Granted8 == <<0, 90, 0, 0, 0, 0, 0, 0>>

RelayStarted == upc # "none" \/ dpc # "none"

\* C1: the 8-byte reply is completely written to the client before either
\* relay thread starts, so every byte the download thread writes to the
\* client comes after the last byte of the reply.
C1_ReplyBeforeRelay ==
    /\ RelayStarted =>
          /\ roff = 8
          /\ Len(cliRecv) >= 8
          /\ SubSeq(cliRecv, 1, 8) = By("handler", Granted8)
    /\ \A i \in 1..Len(cliRecv) :
          IsRelayByte(cliRecv[i]) =>
             /\ i > 8
             /\ SubSeq(cliRecv, 1, 8) = By("handler", Granted8)

\* A relayed byte of a talking destination has reached the client, right
\* behind the reply.
C1_Witness ==
    /\ dstKind = "talk"
    /\ Len(cliRecv) > 8
    /\ IsRelayByte(cliRecv[9])
    /\ hpc = "done"

\* C2: every invocation of handle_sock4_client, whatever its outcome, has
\* produced exactly one reply to the client once it returns, and no relayed
\* byte precedes it.
C2_OneReplyPerAttempt ==
    (req # NoReq /\ hpc = "done") =>
        /\ Len(HandlerWritten) = 8
        /\ IsPrefix(By("handler", HandlerWritten), cliRecv)

\* C3: when the dial fails the handler writes nothing to the client, starts
\* no relay thread and returns the dial error.
C3_DialFailure ==
    (dstKind = "refuse" /\ hpc \notin {"read_version", "read_command", "read_dst_port",
                                       "read_dst_ip", "read_userid", "connect"}) =>
        /\ hpc = "done"
        /\ hres \in {"ErrDecode", "ErrDial"}
        /\ req # NoReq => hres = "ErrDial"
        /\ cliRecv = <<>>
        /\ roff = 0
        /\ upc = "none" /\ dpc = "none"
        /\ ~dstConn

\* The dial of a well-formed request was refused although the client had
\* sent its whole script.
C3_Witness ==
    /\ dstKind = "refuse"
    /\ hres = "ErrDial"
    /\ sent = Len(script)

\* C4: what the handler itself writes to the client is 00 5A 00 00 00 00
\* 00 00 and nothing else, whatever port and address were requested; these
\* are the first bytes the client gets, all eight of them once write_all has
\* returned.
C4_GrantedReply ==
    /\ IsPrefix(HandlerWritten, Granted8)
    /\ IsPrefix(By("handler", HandlerWritten), cliRecv)
    /\ Len(HandlerWritten) = roff
    /\ (hpc \in {"clone_outbound_in", "clone_outbound_out", "clone_inbound_in",
                 "clone_inbound_out", "spawn_upload", "spawn_download"}
        \/ hres \in {"Ok", "ErrClone"}) => HandlerWritten = Granted8

\* The reply to a request for port 443 at 10.0.0.2 is out, followed by
\* relayed bytes.
C4_Witness ==
    /\ req # NoReq
    /\ req.dst_port = 443
    /\ req.dst_ip = <<10, 0, 0, 2>>
    /\ hres = "Ok"
    /\ Len(cliRecv) > 8

\* C5: in each direction the bytes written to the sink are a prefix of the
\* bytes that arrived at the source: nothing is reordered, duplicated or
\* taken from the other direction.
C5_RelayPrefix ==
    /\ IsPrefix(dstRecv, UploadSource)
    /\ IsPrefix(Relayed, dstSent)
    /\ IsPrefix(dstRecv \o ubuf, UploadSource)
    /\ IsPrefix(Relayed \o dbuf, dstSent)

\* Both threads are in the middle of their copies with bytes delivered in
\* both directions, the destination sending bytes of its own.
C5_Witness ==
    /\ dstKind = "talk"
    /\ Len(dstRecv) >= 2
    /\ Len(Relayed) >= 1
    /\ upc = "copy_write"
    /\ dpc = "copy_write"

\* C6: in the scenario (request 04 01 00 50 7F 00 00 01 without user-id
\* bytes, echoing destination, successful handling), once the client has sent
\* "ping" it eventually has received the granted reply followed by "ping".
C6_PingEchoed ==
    (hres = "Ok" /\ sent = Len(script))
        ~> (cliRecv = By("handler", Granted8) \o By("download", Ping))

C8_Independent ==
    /\ (dpc \in {"none", "copy_read", "copy_write"}) <=> (dend = "none")
    /\ dend = "eof" => (dstFin /\ drd = Len(dstSent))
    /\ dend = "read_err" => dstReset
    /\ dend = "write_err" => cliReset
    /\ (upc \in {"none", "copy_read", "copy_write"}) <=> (uend = "none")
    /\ uend = "eof" => (cliFin /\ rd = sent)
    /\ uend = "read_err" => cliReset
    /\ uend = "write_err" => dstReset
    /\ (upc = "done" /\ dpc \in {"copy_read", "copy_write"}) =>
          /\ ~cliReset => ~CliWriteFails
          /\ ~dstReset => ~dstRdShut
    /\ (dpc = "done" /\ upc \in {"copy_read", "copy_write"}) =>
          /\ ~dstReset => ~DstWriteFails
          /\ ~cliReset => ~cliRdShut

\* The upload thread has ended and shut down both its halves while the
\* download thread is writing a relayed byte to the client.
C8_Witness ==
    /\ upc = "done"
    /\ cliRdShut /\ dstWrShut
    /\ dpc = "copy_write"
    /\ dbuf # <<>>
    /\ ~cliReset /\ ~dstReset

\* C9: on a stream that ends (closed or failed) with fewer than 8 bytes,
\* deserialize returns an error and no request; nothing of the failed attempt
\* is kept, neither in the decoder nor, unread, in the stream.
C9_ShortStream ==
    (Len(script) < 8 /\ sent = Len(script) /\ (cliFin \/ cliReset)) =>
        /\ req = NoReq
        /\ hpc \in {"read_version", "read_command", "read_dst_port", "read_dst_ip", "done"}
        /\ hpc # "done" => ENABLED Deserialize
        /\ hpc = "done" =>
              /\ hres = "ErrDecode"
              /\ fixed = ZeroBufs
              /\ cliReset \/ rd = sent

\* deserialize has failed on a closed stream of 1 to 7 bytes, all of which it
\* consumed.
C9_Witness ==
    /\ Len(script) \in 1..7
    /\ cliFin /\ ~cliReset
    /\ hpc = "done"
    /\ hres = "ErrDecode"
    /\ rd = Len(script)

\* C10: a request that deserialize returns has version 4 whatever the first
\* byte was, command b1, port 256*b2 + b3, address b4.b5.b6.b7 and no
\* user-id; command, big-endian port and address encode back to b1..b7.
C10_DecodeFields ==
    req # NoReq =>
        /\ Len(script) >= 8
        /\ req.version_number = 4
        /\ req.command = script[2]
        /\ req.dst_port = 256 * script[3] + script[4]
        /\ req.dst_ip = SubSeq(script, 5, 8)
        /\ req.userid = "None"
        /\ <<req.command, req.dst_port \div 256, req.dst_port % 256>> \o req.dst_ip
              = SubSeq(script, 2, 8)

\* A request decoded from a stream whose version byte is not 4 and whose two
\* port bytes differ.
C10_Witness ==
    /\ req # NoReq
    /\ script[1] # 4
    /\ script[3] # script[4]
    /\ hpc = "connect"

\* ---------------------------------------------- the decoder on its own

\* Byte values the decoder-only specification builds its streams from.
ByteSamples == {0, 4, 255}

SeqsUpTo(S, n) == UNION {[1..k -> S] : k \in 0..n}

\* Streams that fill the user-id buffer and more: 8 + 255 bytes and longer.
LongStreams ==
    {[i \in 1..n |-> SocksVersion] : n \in (8 + UserIdCap)..(8 + UserIdCap + MaxOver)}

\* deserialize applied to a stream that has fully arrived: any bytes, ended
\* (closed or failed) or still open.
DecodeInit ==
    /\ script \in SeqsUpTo(ByteSamples, MaxLen) \cup LongStreams
    /\ sent = Len(script)
    /\ cliFin \in BOOLEAN
    /\ cliReset \in BOOLEAN
    /\ dstKind = "echo"
    /\ ProxyInit
    /\ SerIdle

DecodeNext == Deserialize

DecodeSpec == DecodeInit /\ [][DecodeNext]_vars

\* ------------------------------------------------------- Sock4Reply::serialize

\* pub enum Socks4ReplyCode, as u8
ReplyCodes == {RequestGranted, RequestFailed, 92, 93}

\* dst_port.to_ne_bytes(): the two bytes in the machine's order.
PortNeBytes(p) ==
    IF endian = "little" THEN <<p % 256, p \div 256>> ELSE <<p \div 256, p % 256>>

\* The four bytes of a u32, most significant first.
BeBytes32(x) ==
    <<x \div 16777216, (x \div 65536) % 256, (x \div 256) % 256, x % 256>>

\* dst_ip.to_ne_bytes(): the four bytes in the machine's order.
IpNeBytes(x) ==
    LET b == BeBytes32(x)
    IN IF endian = "little" THEN <<b[4], b[3], b[2], b[1]>> ELSE b

\* buffer.write(bytes)?: one write, which takes what the writer has room for
\* and reports how much it took; serialize drops that number. A writer
\* without room returns Ok(0) or an error, which `?` returns.
SerWrite(here, bytes, next) ==
    /\ spc = here
    /\ IF wroom = 0 /\ wfull = "err"
       THEN /\ spc' = "done"
            /\ sres' = "Err"
            /\ UNCHANGED <<sout, wroom>>
       ELSE LET n == Min(Len(bytes), wroom)
            IN /\ sout' = sout \o SubSeq(bytes, 1, n)
               /\ wroom' = wroom - n
               /\ spc' = next
               /\ sres' = IF next = "done" THEN "Ok" ELSE sres
    /\ UNCHANGED <<sreply, wfull, endian>>
    /\ UNCHANGED <<clientVars, proxyVars, dstVars>>

\* buffer.write(&[self.version_number, self.reply_code as u8])?;
SerWriteHead ==
    SerWrite("write_head", <<sreply.version_number, sreply.reply_code>>, "write_port")

\* buffer.write(&self.dst_port.to_ne_bytes())?;
SerWritePort == SerWrite("write_port", PortNeBytes(sreply.dst_port), "write_ip")

\* buffer.write(&self.dst_ip.to_ne_bytes())?; Ok(())
SerWriteIp == SerWrite("write_ip", IpNeBytes(sreply.dst_ip), "done")

Serialize == SerWriteHead \/ SerWritePort \/ SerWriteIp

\* serialize called with any reply and a writer with some room left.
SerializeInit ==
    /\ spc = "write_head"
    /\ sreply \in [version_number : {0, SocksVersion}, reply_code : ReplyCodes,
                   dst_port : {0, 80, 443}, dst_ip : {0, 2130706433}]
    /\ sout = <<>>
    /\ sres = "none"
    /\ wroom \in 0..MaxRoom
    /\ wfull \in {"zero", "err"}
    /\ endian \in {"little", "big"}
    /\ script = <<>>
    /\ sent = 0
    /\ cliFin = FALSE
    /\ cliReset = FALSE
    /\ dstKind = "echo"
    /\ ProxyInit

SerializeNext == Serialize

SerializeSpec == SerializeInit /\ [][SerializeNext]_vars

\* C11: serialize returns success only when the whole 8-byte wire form
\* (version, reply code, 2-byte port, 4-byte address, in that order) has
\* been written, and returns an error whenever the writer did not take all
\* the bytes it was offered.
C11_SerializeAllOrError ==
    sres = "Ok" =>
        /\ Len(sout) = 8
        /\ sout[1] = sreply.version_number
        /\ sout[2] = sreply.reply_code
        /\ SubSeq(sout, 3, 4) \in {<<sreply.dst_port \div 256, sreply.dst_port % 256>>,
                                   <<sreply.dst_port % 256, sreply.dst_port \div 256>>}
        /\ SubSeq(sout, 5, 8) \in {BeBytes32(sreply.dst_ip),
                                   [i \in 1..4 |-> BeBytes32(sreply.dst_ip)[5 - i]]}

\* C12: the handler returns Ok right after starting the second thread,
\* without waiting for either: whenever the download thread exists the
\* handler has already returned Ok, whatever the two threads are doing, and
\* it returns Ok only with both threads started.
C12_ReturnsAtOnce ==
    /\ dpc # "none" => (hpc = "done" /\ hres = "Ok")
    /\ hres = "Ok" => (upc # "none" /\ dpc # "none")

\* The handler has returned and both threads are in the middle of their
\* copies, bytes having been relayed in both directions since.
C12_Witness ==
    /\ hpc = "done" /\ hres = "Ok"
    /\ upc = "copy_write" /\ dpc = "copy_write"
    /\ Len(dstRecv) >= 1
    /\ Len(Relayed) >= 1

\* C13: a successful deserialize has consumed the 8 fixed bytes and what one
\* read of the user-id field returned, between 0 and 255 bytes and so at most
\* 263 bytes in all, and deserialize writes nothing.
C13_Consumes ==
    /\ hpc = "read_userid" => rd = 8
    /\ req # NoReq =>
          /\ rd = decEnd
          /\ rd - 8 \in 0..255
          /\ rd <= 263
          /\ rd <= sent
    /\ cliRecv = <<>>
    /\ dstRecv = <<>>

\* deserialize has returned a request after filling its whole user-id buffer,
\* with bytes left in the stream.
C13_Witness ==
    /\ req # NoReq
    /\ rd = 263
    /\ sent > 263

\* C14: in each direction, once the copy has ended (end of stream, read
\* error or write error) the thread shuts down the read half of its source,
\* then the write half of its sink, and ends; whether a shutdown succeeds or
\* fails, the next step is taken and the other thread is left alone.
C14_Teardown ==
    /\ (uend # "none") ~> (upc = "done")
    /\ (dend # "none") ~> (dpc = "done")
    /\ [][/\ (uend = "none" /\ uend' # "none") => upc' = "shut_read"
          /\ (upc = "shut_read" /\ upc' # upc) =>
                (upc' = "shut_write" /\ UNCHANGED <<downVars, cliWrShut, dstRdShut, dstWrShut>>)
          /\ (upc = "shut_write" /\ upc' # upc) =>
                (upc' = "done" /\ UNCHANGED <<downVars, cliWrShut, dstRdShut, cliRdShut>>)
          /\ (dend = "none" /\ dend' # "none") => dpc' = "shut_read"
          /\ (dpc = "shut_read" /\ dpc' # dpc) =>
                (dpc' = "shut_write" /\ UNCHANGED <<upVars, cliRdShut, dstWrShut, cliWrShut>>)
          /\ (dpc = "shut_write" /\ dpc' # dpc) =>
                (dpc' = "done" /\ UNCHANGED <<upVars, cliRdShut, dstWrShut, dstRdShut>>)
       ]_vars
    /\ [](upc \in {"none", "copy_read", "copy_write", "shut_read", "shut_write", "done"})
    /\ [](dpc \in {"none", "copy_read", "copy_write", "shut_read", "shut_write", "done"})

\* The upload thread has ended after a read error: its shutdown of the
\* client's read half failed, its shutdown of the destination's write half
\* was done all the same, and the download thread is still copying.
C14_Witness ==
    /\ upc = "done"
    /\ uend = "read_err"
    /\ ~cliRdShut
    /\ dstWrShut
    /\ dpc = "copy_read"

\* The handler returns an error after the dial and drops the connection to
\* the destination, no thread having been started.
HandlerDrops ==
    /\ hpc # "done" /\ hpc' = "done"
    /\ hres' \in {"ErrReply", "ErrClone"}
    /\ upc = "none" /\ dpc = "none"

\* C15: the two threads work on disjoint socket halves. The client's read
\* half is read and shut down by the upload thread only (and read by the
\* decoder before any thread exists), the destination's write half is
\* written and shut down by the upload thread only, the destination's read
\* half is read and shut down by the download thread only, the client's
\* write half is written and shut down by the download thread only (and
\* written by the handler's reply before any thread exists).
C15_DisjointHalves ==
    [][/\ (rd' # rd) =>
             \/ (upc = "none" /\ dpc = "none" /\ hpc # "done")
             \/ (upc = "copy_read" /\ upc' = "copy_write" /\ UNCHANGED downVars)
       /\ (cliRdShut' # cliRdShut) =>
             (upc = "shut_read" /\ upc' = "shut_write" /\ UNCHANGED downVars)
       /\ (dstRecv' # dstRecv) =>
             (upc = "copy_write" /\ UNCHANGED downVars)
       /\ (dstWrShut' # dstWrShut) =>
             \/ (upc = "shut_write" /\ upc' = "done" /\ UNCHANGED downVars)
             \/ HandlerDrops
       /\ (drd' # drd) =>
             (dpc = "copy_read" /\ dpc' = "copy_write" /\ UNCHANGED upVars)
       /\ (dstRdShut' # dstRdShut) =>
             \/ (dpc = "shut_read" /\ dpc' = "shut_write" /\ UNCHANGED upVars)
             \/ HandlerDrops
       /\ (cliRecv' # cliRecv) =>
             \/ (hpc = "reply" /\ upc = "none" /\ dpc = "none")
             \/ (dpc = "copy_write" /\ UNCHANGED upVars)
       /\ (cliWrShut' # cliWrShut) =>
             (dpc = "shut_write" /\ dpc' = "done" /\ UNCHANGED upVars)
    ]_vars

\* Both threads have ended after relaying bytes in both directions and all
\* four socket halves are shut down.
C15_Witness ==
    /\ upc = "done" /\ dpc = "done"
    /\ cliRdShut /\ cliWrShut /\ dstRdShut /\ dstWrShut
    /\ Len(dstRecv) >= 1
    /\ Len(Relayed) >= 1

\* C16: the handler starts both relay threads or none. Once it has returned,
\* it returned Ok exactly when an upload and a download thread were started,
\* and with any error (dial, reply write, try_clone) no thread was started;
\* a try_clone error comes after the whole granted reply was sent.
C16_BothOrNone ==
    /\ hpc = "done" =>
          /\ (hres = "Ok") <=> (upc # "none" /\ dpc # "none")
          /\ (hres # "Ok") => (upc = "none" /\ dpc = "none")
    /\ dpc # "none" => upc # "none"
    /\ hres = "ErrClone" => HandlerWritten = Granted8
    /\ hres \in {"none", "Ok", "ErrDecode", "ErrDial", "ErrReply", "ErrClone"}

\* The handler has returned a try_clone error: the granted reply is out and
\* no thread exists.
C16_Witness ==
    /\ hpc = "done"
    /\ hres = "ErrClone"
    /\ HandlerWritten = Granted8
    /\ upc = "none" /\ dpc = "none"

\* Length of the request a script starts with: what precedes the payload.
RequestLen == Len(script) - Len(Payload)

\* C17: a byte the client sends after its request's terminating NUL is never
\* consumed by deserialize: where deserialize returns, the stream stands no
\* further than the end of the request, so that the payload is left for the
\* upload thread.
C17_NoPayloadLost ==
    (req # NoReq /\ RequestLen > 8 /\ script[RequestLen] = 0) => decEnd <= RequestLen

\* ------------------------------------------- requests of every command code

\* Command codes and wire versions a client may put in its request.
CommandCodes == {0, 1, 2, 255}
WireVersions == {0, 4, 5}

\* Requests for one destination (port 80, 127.0.0.1, empty user-id) under
\* every command code and wire version, each followed by one payload byte.
CommandScripts ==
    {<<v, c, 0, 80, 127, 0, 0, 1, 0>> \o SubSeq(Ping, 1, 1) :
        v \in WireVersions, c \in CommandCodes}

CommandInit ==
    /\ script \in CommandScripts
    /\ dstKind \in {"refuse", "echo", "talk"}
    /\ sent = 0
    /\ cliFin = FALSE
    /\ cliReset = FALSE
    /\ ProxyInit
    /\ SerIdle

CommandSpec == CommandInit /\ [][Next]_vars

\* TcpStream::connect((req.dst_ip, req.dst_port)): what the handler dials.
DialTarget == <<req.dst_ip, req.dst_port>>

\* C18: every request is serviced as a connect, whatever its command code and
\* wire version. The handler dials the address and port of the request; past
\* the dial the connection exists exactly if the destination accepts; every
\* error return has its cause in the connections (the stream ended or failed
\* during the decode, the destination refused, the client's connection failed
\* under the reply), never in the request; a handler past the reply has sent
\* the granted reply, and what is relayed upstream is what followed the
\* decoded request.
C18_ServicedAsConnect ==
    /\ req # NoReq =>
          /\ DialTarget = <<SubSeq(script, 5, 8), 256 * script[3] + script[4]>>
          /\ hpc # "connect" => (dstConn <=> dstKind # "refuse")
    /\ hres = "ErrDecode" => (cliReset \/ (cliFin /\ sent < 8))
    /\ hres = "ErrDial" => dstKind = "refuse"
    /\ hres = "ErrReply" => cliReset
    /\ (hres \in {"Ok", "ErrClone"} \/ hpc \notin {"read_version", "read_command",
            "read_dst_port", "read_dst_ip", "read_userid", "connect", "reply", "done"})
          => HandlerWritten = Granted8
    /\ IsPrefix(dstRecv, UploadSource)

\* A request with wire version 5 and a command code that is neither connect
\* nor bind was dialled, granted and relayed in both directions.
C18_Witness ==
    /\ script[1] = 5 /\ req.command = 255
    /\ hres = "Ok"
    /\ HandlerWritten = Granted8
    /\ dstRecv # <<>>
    /\ Relayed # <<>>

\* A relay thread is Running while it is in its copy.
Copying == {"copy_read", "copy_write"}

\* The source of a running copy neither delivers bytes, nor closes, nor fails.
UploadStalled ==
    upc = "copy_read" /\ Avail = 0 /\ ~cliFin /\ ~cliReset /\ ~cliRdShut

DownloadStalled ==
    dpc = "copy_read" /\ DstAvail = 0 /\ ~dstFin /\ ~dstReset /\ ~dstRdShut

\* C19: there is no timeout or cancellation. A relay thread leaves its copy
\* only by the end of stream or an error of its own copy (a read error with
\* its source reset, a write error with its sink failed), and no step of
\* anybody (the handler's return and the other thread's termination included)
\* takes a thread out of a copy whose source is stalled.
C19_NoTimeout ==
    [][/\ (upc \in Copying /\ upc' \notin Copying) =>
             /\ upc' = "shut_read"
             /\ uend' \in {"eof", "read_err", "write_err"}
             /\ uend' = "eof" => (cliFin \/ cliRdShut)
             /\ uend' = "read_err" => cliReset
             /\ uend' = "write_err" => DstWriteFails
       /\ (dpc \in Copying /\ dpc' \notin Copying) =>
             /\ dpc' = "shut_read"
             /\ dend' \in {"eof", "read_err", "write_err"}
             /\ dend' = "eof" => (dstFin \/ dstRdShut)
             /\ dend' = "read_err" => dstReset
             /\ dend' = "write_err" => CliWriteFails
       /\ UploadStalled => upc' = "copy_read"
       /\ DownloadStalled => dpc' = "copy_read"]_vars

\* The handler has returned and the download thread has terminated, and the
\* upload thread sits in its copy on a client that is silent and open.
C19_Witness ==
    /\ hpc = "done" /\ hres = "Ok"
    /\ dpc = "done"
    /\ UploadStalled

====
